---- MODULE Spec2Model ----
(***************************************************************************)
(* Model of dscanwatch (src/main.py): the clipboard pipeline               *)
(*   validate -> parse -> analyze -> snapshot store -> report formatter    *)
(* and the navigation / reset-baseline handlers of the Main window.        *)
(*                                                                         *)
(* A Python str is a sequence of one-character strings, so that strip,     *)
(* splitlines, the column split and the regular expressions are computed   *)
(* character by character as the code computes them.                       *)
(***************************************************************************)
EXTENDS Integers, Sequences, FiniteSets, TLC

VARIABLES
    line_counts,      \* the counts of the substring variant for the latest
                      \*   trigger, None before the first one
    index_file,       \* the index file Main.__init__ finds next to the program
    load_err,         \* how load_ship_index ended in Main.__init__
    index,            \* self.index: the 1-tuple <<type_to_group>>, or None
    mode,             \* self.mode: "By Group" / "By Type"
    ignore_non_dscan, \* self.act_ignore_non_dscan.isChecked()
    snaps,            \* self.snaps
    view_idx,         \* self.view_idx
    out,              \* text shown in self.out
    cb,               \* self.cb.text(): the clipboard text of the latest trigger
    last,             \* history: the handler that ran last and the store before it
    adds              \* history: the snapshots appended by the current run of
                      \*          triggers that carried the same clipboard text

vars == <<line_counts, index_file, load_err, index, mode, ignore_non_dscan, snaps, view_idx, out, cb, last, adds>>

\* Python None, wherever the code only tests the value for truth: the empty
\* tuple, which is falsy like None
None == <<>>

-----------------------------------------------------------------------------
(* Characters and Python str helpers *)

DigitSeq == <<"0","1","2","3","4","5","6","7","8","9">>
UpperSeq == <<"A","B","C","D","E","F","G","H","I","J","K","L","M",
              "N","O","P","Q","R","S","T","U","V","W","X","Y","Z">>
LowerSeq == <<"a","b","c","d","e","f","g","h","i","j","k","l","m",
              "n","o","p","q","r","s","t","u","v","w","x","y","z">>

Range(s) == {s[i] : i \in DOMAIN s}

Digits == Range(DigitSeq)
Uppers == Range(UpperSeq)
Lowers == Range(LowerSeq)

TAB == "\t"
NL  == "\n"
SP  == " "

\* str.isspace() / regex \s over the characters of the model
IsSpace(c) == c \in {SP, TAB, NL}

\* regex \w
IsWord(c) == c \in Digits \cup Uppers \cup Lowers \cup {"_"}

\* ord(c): the code point, which orders Python strings
PosIn(seq, c) == CHOOSE i \in DOMAIN seq : seq[i] = c

OrdOf ==
    [c \in Digits |-> 47 + PosIn(DigitSeq, c)] @@
    [c \in Uppers |-> 64 + PosIn(UpperSeq, c)] @@
    [c \in Lowers |-> 96 + PosIn(LowerSeq, c)] @@
    (TAB :> 9) @@ (NL :> 10) @@ (SP :> 32) @@ ("(" :> 40) @@ (")" :> 41) @@
    ("-" :> 45) @@ ("_" :> 95)

Ord(c) == OrdOf[c]

\* str.lower() on one character
LowerOf == [c \in Uppers |-> LowerSeq[PosIn(UpperSeq, c)]]

LowerChar(c) == IF c \in Uppers THEN LowerOf[c] ELSE c

\* str.lower()
Lower(s) == [i \in DOMAIN s |-> LowerChar(s[i])]

\* a < b for Python str: the first differing character decides, a proper
\* prefix comes first
RECURSIVE StrLessFrom(_, _, _)
StrLessFrom(a, b, i) ==
    IF i > Len(a) THEN i <= Len(b)
    ELSE IF i > Len(b) THEN FALSE
    ELSE IF a[i] = b[i] THEN StrLessFrom(a, b, i + 1)
    ELSE Ord(a[i]) < Ord(b[i])

StrLess(a, b) == StrLessFrom(a, b, 1)

\* the first index >= i of s that holds no white space (Len(s) + 1 if none)
RECURSIVE SkipSpace(_, _)
SkipSpace(s, i) == IF i <= Len(s) /\ IsSpace(s[i]) THEN SkipSpace(s, i + 1) ELSE i

\* the last index <= i of s that holds no white space (0 if none)
RECURSIVE SkipSpaceBack(_, _)
SkipSpaceBack(s, i) == IF i >= 1 /\ IsSpace(s[i]) THEN SkipSpaceBack(s, i - 1) ELSE i

LStrip(s) == SubSeq(s, SkipSpace(s, 1), Len(s))

RStrip(s) == SubSeq(s, 1, SkipSpaceBack(s, Len(s)))

\* str.strip()
Strip(s) == RStrip(LStrip(s))

\* str.split(sep) for a one-character sep, from index i on, the current part
\* starting at `start`: empty parts are kept
RECURSIVE SplitFrom(_, _, _, _, _)
SplitFrom(s, sep, i, start, acc) ==
    IF i > Len(s) THEN Append(acc, SubSeq(s, start, Len(s)))
    ELSE IF s[i] = sep
         THEN SplitFrom(s, sep, i + 1, i + 1, Append(acc, SubSeq(s, start, i - 1)))
    ELSE SplitFrom(s, sep, i + 1, start, acc)

SplitChar(s, sep) == SplitFrom(s, sep, 1, 1, <<>>)

\* str.splitlines(): split at line ends, no empty last line after a final line end
SplitLines(s) ==
    IF s = <<>> THEN <<>>
    ELSE LET parts == SplitChar(s, NL)
         IN  IF parts[Len(parts)] = <<>> THEN SubSeq(parts, 1, Len(parts) - 1)
             ELSE parts

\* needle in hay, for Python str
Contains(hay, needle) ==
    \E i \in 1..(Len(hay) - Len(needle) + 1) :
        SubSeq(hay, i, i + Len(needle) - 1) = needle

\* "sep".join(parts)
RECURSIVE Join(_, _)
Join(parts, sep) ==
    IF parts = <<>> THEN <<>>
    ELSE IF Len(parts) = 1 THEN parts[1]
    ELSE parts[1] \o sep \o Join(Tail(parts), sep)

-----------------------------------------------------------------------------
(* Module constants of main.py *)

MIN_LINES_FOR_VALIDATION == 3

\* ID_LINE_RE = ^\s*\d+\b, as re.match applies it: after the leading white
\* space a run of digits that ends at the end of the line or before a
\* non-word character (a shorter run would end before a digit: no \b there)
RECURSIVE SkipDigits(_, _)
SkipDigits(s, i) == IF i <= Len(s) /\ s[i] \in Digits THEN SkipDigits(s, i + 1) ELSE i

ID_LINE_RE(ln) ==
    LET first == SkipSpace(ln, 1)
        after == SkipDigits(ln, first)
    IN  /\ after > first
        /\ (after > Len(ln) \/ ~IsWord(ln[after]))

\* SPLIT_SPACES_RE = \s{2,}, as re.split applies it from index i on: every
\* maximal run of two or more white-space characters separates two parts
RECURSIVE SplitSpacesFrom(_, _, _, _)
SplitSpacesFrom(s, i, start, acc) ==
    IF i > Len(s) THEN Append(acc, SubSeq(s, start, Len(s)))
    ELSE IF IsSpace(s[i]) /\ i < Len(s) /\ IsSpace(s[i + 1])
         THEN LET j == SkipSpace(s, i)
              IN  SplitSpacesFrom(s, j, j, Append(acc, SubSeq(s, start, i - 1)))
    ELSE SplitSpacesFrom(s, i + 1, start, acc)

SPLIT_SPACES_RE(s) == SplitSpacesFrom(s, 1, 1, <<>>)

\* SYSTEM_TOKEN_RE = ^[A-Z0-9-]{2,}$
SYSTEM_TOKEN_RE(tok) ==
    /\ Len(tok) >= 2
    /\ \A i \in DOMAIN tok : tok[i] \in Uppers \cup Digits \cup {"-"}

Keepstar == <<"K","e","e","p","s","t","a","r">>
Fortizar == <<"F","o","r","t","i","z","a","r">>
Astrahus == <<"A","s","t","r","a","h","u","s">>
Azbel    == <<"A","z","b","e","l">>
Sotiyo   == <<"S","o","t","i","y","o">>
Raitaru  == <<"R","a","i","t","a","r","u">>
Athanor  == <<"A","t","h","a","n","o","r">>
Tatara   == <<"T","a","t","a","r","a">>
Ihub     == <<"I","h","u","b">>
TCU      == <<"T","C","U">>
POS      == <<"P","O","S">>
POSTower == <<"P","O","S"," ","T","o","w","e","r">>
Complex  == <<"C","o","m","p","l","e","x">>
Refinery == <<"R","e","f","i","n","e","r","y">>
Citadel  == <<"C","i","t","a","d","e","l">>
EngineeringComplex ==
    <<"E","n","g","i","n","e","e","r","i","n","g"," ">> \o Complex

STRUCTURE_TYPES ==
    {Keepstar, Fortizar, Astrahus, Azbel, Sotiyo, Raitaru, Athanor, Tatara,
     Ihub, TCU, POS, POSTower, EngineeringComplex, Refinery, Citadel}

Unknown == <<"U","n","k","n","o","w","n">>

-----------------------------------------------------------------------------
(* The pure pipeline functions *)

\* load_ship_index on an index file holding the JSON object `raw` (its
\* key/value pairs in file order): keys lower-cased, a later pair overwriting
\* an earlier one with the same lower-cased key
RECURSIVE type_to_group_of(_, _)
type_to_group_of(raw, acc) ==
    IF raw = <<>> THEN acc
    ELSE LET k == Lower(Head(raw)[1])
             v == Head(raw)[2]
         IN  type_to_group_of(Tail(raw),
                 [x \in (DOMAIN acc) \cup {k} |-> IF x = k THEN v ELSE acc[x]])

LoadOk   == "ok"
NotFound == "Index JSON not found."
Raised   == "raised"

\* file.found: p.exists(); file.valid: json.load gives an object; file.raw: that
\* object. How the call ends: it returns no error, returns the message of a
\* missing file, or json.load / raw.items() raises, which nothing catches
load_ship_index_err(file) ==
    IF ~file.found THEN NotFound
    ELSE IF ~file.valid THEN Raised
    ELSE LoadOk

\* a missing file taken as an empty index
load_ship_index_empty_default(file) ==
    IF file.found /\ file.valid THEN <<type_to_group_of(file.raw, <<>>)>> ELSE << <<>> >>

\* the `loaded` that self.index gets: None with the error message, and never
\* assigned when the call raises
load_ship_index(file) ==
    IF file.found /\ file.valid THEN <<type_to_group_of(file.raw, <<>>)>> ELSE None

split_columns(line) ==
    LET parts == IF TAB \in Range(line)
                 THEN SplitChar(line, TAB)
                 ELSE SPLIT_SPACES_RE(line)
    IN  [i \in DOMAIN parts |-> Strip(parts[i])]

NonBlank(ln) == Strip(ln) # <<>>

\* the row without the second reading of a line that has no name and no type
parse_line_without_fallback(raw) ==
    LET parts == split_columns(raw)
        n     == Len(parts)
    IN  [id   |-> IF n >= 1 THEN parts[1] ELSE <<>>,
         name |-> IF n >= 2 THEN parts[2] ELSE <<>>,
         type |-> IF n >= 3 THEN parts[3] ELSE <<>>,
         dist |-> IF n >= 4 THEN parts[4] ELSE <<>>,
         raw  |-> raw]

\* the row parse_dscan makes of one non-blank line
parse_line(raw) ==
    LET parts == split_columns(raw)
        n     == Len(parts)
        id0   == IF n >= 1 THEN parts[1] ELSE <<>>
        name0 == IF n >= 2 THEN parts[2] ELSE <<>>
        typ0  == IF n >= 3 THEN parts[3] ELSE <<>>
        dist0 == IF n >= 4 THEN parts[4] ELSE <<>>
    IN  IF name0 = <<>> /\ typ0 = <<>> /\ n >= 2
        THEN [id |-> <<>>, name |-> parts[1], type |-> parts[2],
              dist |-> IF n >= 3 THEN parts[3] ELSE <<>>, raw |-> raw]
        ELSE [id |-> id0, name |-> name0, type |-> typ0, dist |-> dist0, raw |-> raw]

parse_dscan(text) ==
    LET lines == SelectSeq(SplitLines(text), NonBlank)
    IN  [i \in DOMAIN lines |-> parse_line(lines[i])]

IsStructureRow(r) ==
    LET name == Strip(r.name)
        typ  == Strip(r.type)
    IN  /\ name # <<>>
        /\ typ # <<>>
        /\ \/ typ \in STRUCTURE_TYPES
           \/ Contains(typ, Complex)
           \/ Contains(typ, Refinery)
           \/ Contains(typ, Citadel)
        /\ Contains(name, <<" ", "-", " ">>)

\* name.split(" - ", 1)[0].strip()
SystemToken(r) ==
    LET name == Strip(r.name)
        i    == CHOOSE k \in 1..Len(name) :
                    /\ SubSeq(name, k, k + 2) = <<" ", "-", " ">>
                    /\ \A j \in 1..(k - 1) : SubSeq(name, j, j + 2) # <<" ", "-", " ">>
    IN  Strip(SubSeq(name, 1, i - 1))

\* the scan ending at the first structure row with " - " in its name
RECURSIVE extract_system_from_first_row(_)
extract_system_from_first_row(rows) ==
    IF rows = <<>> THEN None
    ELSE IF IsStructureRow(Head(rows))
         THEN IF SYSTEM_TOKEN_RE(SystemToken(Head(rows)))
              THEN SystemToken(Head(rows)) ELSE None
    ELSE extract_system_from_first_row(Tail(rows))

RECURSIVE extract_system_from_rows(_)
extract_system_from_rows(rows) ==
    IF rows = <<>> THEN None
    ELSE IF IsStructureRow(Head(rows)) /\ SYSTEM_TOKEN_RE(SystemToken(Head(rows)))
         THEN SystemToken(Head(rows))
    ELSE extract_system_from_rows(Tail(rows))

\* Counter: a function from the counted names to their counts
EmptyCounter == <<>>

Get(ctr, k) == IF k \in DOMAIN ctr THEN ctr[k] ELSE 0

Incr(ctr, k) == [x \in (DOMAIN ctr) \cup {k} |-> Get(ctr, x) + IF x = k THEN 1 ELSE 0]

\* the lookup without lower()
lookup_case_sensitive(type_to_group, typ) ==
    IF typ \in DOMAIN type_to_group THEN type_to_group[typ] ELSE Unknown

\* type_to_group.get(typ.lower(), "Unknown")
lookup(type_to_group, typ) ==
    IF Lower(typ) \in DOMAIN type_to_group THEN type_to_group[Lower(typ)] ELSE Unknown

\* the loop body counting a row without a type as matched too
analyze_step_matching_untyped(acc, r, type_to_group) ==
    LET typ == IF Strip(r.type) = <<>> THEN Unknown ELSE Strip(r.type)
    IN  [acc EXCEPT !.matched  = @ + 1,
                    !.by_type  = Incr(@, typ),
                    !.by_group = Incr(@, lookup(type_to_group, typ))]

\* one turn of the loop of analyze_rows
analyze_step(acc, r, type_to_group) ==
    LET typ == Strip(r.type)
    IN  IF typ = <<>>
        THEN [acc EXCEPT !.by_type  = Incr(@, Unknown),
                         !.by_group = Incr(@, Unknown)]
        ELSE [acc EXCEPT !.matched  = @ + 1,
                         !.by_type  = Incr(@, typ),
                         !.by_group = Incr(@, lookup(type_to_group, typ))]

RECURSIVE analyze_loop(_, _, _)
analyze_loop(acc, rows, type_to_group) ==
    IF rows = <<>> THEN acc
    ELSE analyze_loop(analyze_step(acc, Head(rows), type_to_group),
                      Tail(rows), type_to_group)

analyze_rows(rows, type_to_group) ==
    analyze_loop([by_group |-> EmptyCounter, by_type |-> EmptyCounter,
                  matched |-> 0, total |-> Len(rows)],
                 rows, type_to_group)

\* The substring variant of the lookup and of the analyzer. main.py has the
\* lookup by the type column only; this variant follows sections 4.1 and 4.5
\* of the specification.

\* the keys iterated first to last, shortest first
keys_by_length_ascending(keys) ==
    LET RECURSIVE sorted_up(_)
        sorted_up(ks) ==
            IF ks = {} THEN <<>>
            ELSE LET first == CHOOSE k \in ks : \A o \in ks \ {k} :
                                  Len(k) < Len(o) \/ (Len(k) = Len(o) /\ StrLess(k, o))
                 IN  <<first>> \o sorted_up(ks \ {first})
    IN  sorted_up(keys)

\* the catalog keys sorted by descending length; the specification leaves the
\* order of keys of one length open, they are taken in ascending order
RECURSIVE keys_by_length(_)
keys_by_length(keys) ==
    IF keys = {} THEN <<>>
    ELSE LET first == CHOOSE k \in keys : \A o \in keys \ {k} :
                          Len(k) > Len(o) \/ (Len(k) = Len(o) /\ StrLess(k, o))
         IN  <<first>> \o keys_by_length(keys \ {first})

\* the group of the first key found in the lower-cased line, None for no match
lookup_substring(type_to_group, line) ==
    LET keys == keys_by_length(DOMAIN type_to_group)
        low  == Lower(line)
        hits == {i \in DOMAIN keys : Contains(low, keys[i])}
    IN  IF hits = {} THEN None
        ELSE type_to_group[keys[CHOOSE i \in hits : \A j \in hits : i <= j]]

\* one line of the substring analyzer: a line without a match is skipped
analyze_line(acc, line, type_to_group) ==
    LET group == lookup_substring(type_to_group, line)
    IN  IF group = None THEN acc
        ELSE [acc EXCEPT !.matched  = @ + 1,
                         !.by_group = Incr(@, group)]

RECURSIVE analyze_lines(_, _, _)
analyze_lines(acc, lines, type_to_group) ==
    IF lines = <<>> THEN acc
    ELSE analyze_lines(analyze_line(acc, Head(lines), type_to_group),
                       Tail(lines), type_to_group)

HasType(ln) ==
    LET parts == split_columns(ln)
    IN  Len(parts) >= 3 /\ Strip(parts[3]) # <<>>

\* the validator with the line minimum off by one
looks_like_dscan_min_exclusive(text, type_to_group) ==
    LET lines    == SelectSeq(SplitLines(text), NonBlank)
        id_lines == SelectSeq(lines, ID_LINE_RE)
        has_type == Len(SelectSeq(id_lines, HasType))
    IN  IF Len(lines) <= MIN_LINES_FOR_VALIDATION THEN FALSE
        ELSE IF 10 * Len(id_lines) < 7 * Len(lines) THEN FALSE
        ELSE IF 10 * has_type < 6 * Len(id_lines) THEN FALSE
        ELSE TRUE

\* the validator refusing a fraction that is exactly at its threshold
looks_like_dscan_thresholds_exclusive(text, type_to_group) ==
    LET lines    == SelectSeq(SplitLines(text), NonBlank)
        id_lines == SelectSeq(lines, ID_LINE_RE)
        has_type == Len(SelectSeq(id_lines, HasType))
    IN  IF Len(lines) < MIN_LINES_FOR_VALIDATION THEN FALSE
        ELSE IF 10 * Len(id_lines) <= 7 * Len(lines) THEN FALSE
        ELSE IF 10 * has_type <= 6 * Len(id_lines) THEN FALSE
        ELSE TRUE

ZeroDivisionError == "ZeroDivisionError"

\* the validator without the test of the id lines against 0.7
looks_like_dscan_call_without_id_test(text, type_to_group) ==
    LET lines    == SelectSeq(SplitLines(text), NonBlank)
        id_lines == SelectSeq(lines, ID_LINE_RE)
        has_type == Len(SelectSeq(id_lines, HasType))
    IN  IF Len(lines) < MIN_LINES_FOR_VALIDATION THEN "False"
        ELSE IF Len(id_lines) = 0 THEN ZeroDivisionError
        ELSE IF 10 * has_type < 6 * Len(id_lines) THEN "False"
        ELSE "True"

\* The quotients are compared as exact fractions: k/n < 0.7 as 10k < 7n and
\* k/n < 0.6 as 10k < 6n.  The float quotient and the float literal round the
\* same way, and differ by more than an ulp whenever 10k # 7n (10k # 6n).
\* A call ends with "True", "False" or, when a divisor is 0, with the
\* ZeroDivisionError the division raises.
looks_like_dscan_call(text, type_to_group) ==
    LET lines    == SelectSeq(SplitLines(text), NonBlank)
        id_lines == SelectSeq(lines, ID_LINE_RE)
        has_type == Len(SelectSeq(id_lines, HasType))
    IN  IF Len(lines) < MIN_LINES_FOR_VALIDATION THEN "False"
        ELSE IF Len(lines) = 0 THEN ZeroDivisionError
        ELSE IF 10 * Len(id_lines) < 7 * Len(lines) THEN "False"
        ELSE IF Len(id_lines) = 0 THEN ZeroDivisionError
        ELSE IF 10 * has_type < 6 * Len(id_lines) THEN "False"
        ELSE "True"

\* the value a call returns
looks_like_dscan(text, type_to_group) == looks_like_dscan_call(text, type_to_group) = "True"

\* the sort key without the minus sign: ascending counts
KeyLess_ascending(a, b, curr) ==
    \/ Get(curr, a) < Get(curr, b)
    \/ Get(curr, a) = Get(curr, b) /\ StrLess(a, b)

\* key(a) < key(b) for the key (-curr.get(n, 0), n) of fmt_with_delta
KeyLess(a, b, curr) ==
    \/ Get(curr, a) > Get(curr, b)
    \/ Get(curr, a) = Get(curr, b) /\ StrLess(a, b)

\* sorted(names, key=lambda n: (-curr.get(n, 0), n))
RECURSIVE rows_sorted(_, _)
rows_sorted(names, curr) ==
    IF names = {} THEN <<>>
    ELSE LET first == CHOOSE n \in names :
                          \A o \in names \ {n} : KeyLess(n, o, curr)
         IN  <<first>> \o rows_sorted(names \ {first}, curr)

\* the delta with its operands swapped
delta_of_swapped(c, p) == p - c

\* the c - p of fmt_with_delta
delta_of(c, p) == c - p

\* One report row; an f-string is the tuple of its pieces, numbers unformatted.
\* `prev` is tested for truth: None and the empty Counter both print no delta.
fmt_row(name, curr, prev) ==
    LET c     == Get(curr, name)
        p     == IF prev # <<>> THEN Get(prev, name) ELSE 0
        delta == delta_of(c, p)
    IN  IF prev # <<>>
        THEN IF delta > 0 THEN <<name, ": ", c, " (+", delta, ")">>
             ELSE IF delta < 0 THEN <<name, ": ", c, " (", delta, ")">>
             ELSE <<name, ": ", c>>
        ELSE <<name, ": ", c>>

NoShipsMatched ==
    <<"(","n","o"," ","s","h","i","p","s"," ","m","a","t","c","h","e","d",")">>

\* the names of the current counts only
all_names_of_current(curr, prev) == DOMAIN curr

\* all_names = set(curr.keys()) | (set(prev.keys()) if prev else set())
all_names_of(curr, prev) == (DOMAIN curr) \cup (IF prev # <<>> THEN DOMAIN prev ELSE {})

\* The block is "\n".join(head + rows + [""] + foot), kept as its three parts.
fmt_with_delta(title, curr, matched, total, prev, stamp, idx, total_snaps, system_name) ==
    LET all_names == all_names_of(curr, prev)
        sorted    == rows_sorted(all_names, curr)
        rows      == [i \in DOMAIN sorted |-> fmt_row(sorted[i], curr, prev)]
    IN  [head |-> << <<"=== ", title, " ===">>,
                     <<"Lines matched: ", matched, "/", total>>,
                     <<>> >>,
         rows |-> IF rows = <<>> THEN << <<NoShipsMatched>> >> ELSE rows,
         foot |-> (IF system_name # None THEN << <<"System: ", system_name>> >> ELSE <<>>)
                  \o << <<"EVE Time: ", stamp>>,
                        <<"Snapshot: ", idx + 1, "/", total_snaps>> >>]

-----------------------------------------------------------------------------
(* Main: the window's pipeline state and its handlers *)

ByGroup == "By Group"
ByType  == "By Type"
Modes   == {ByGroup, ByType}

NoSnapshots == <<"(","n","o"," ","s","n","a","p","s","h","o","t","s",")">>

\* self.out after setPlainText("(no snapshots)") and before any setPlainText
NoSnapshotsOut == [head |-> <<>>, rows |-> << <<NoSnapshots>> >>, foot |-> <<>>]
EmptyOut       == [head |-> <<>>, rows |-> <<>>, foot |-> <<>>]

Max(a, b) == IF a >= b THEN a ELSE b
Min(a, b) == IF a <= b THEN a ELSE b

\* self.snaps[i], for the 0-based i of the code
At(s, i) == s[i + 1]

\* i = max(0, min(self.view_idx, len(self.snaps)-1))
clamp_view(s, v) == Max(0, Min(v, Len(s) - 1))

\* the report diffed against the first snapshot of the store
prev_index_first(i) == 0

\* prev = self.snaps[i-1]
prev_index(i) == i - 1

\* render_current: the view index and the text of self.out it leaves
render_current(s, v, m) ==
    IF s = <<>> THEN [view_idx |-> v, out |-> NoSnapshotsOut]
    ELSE LET i        == clamp_view(s, v)
             curr     == At(s, i)
             title    == IF m = ByType THEN "BY TYPE" ELSE "BY GROUP"
             counter  == IF m = ByType THEN curr.by_type ELSE curr.by_group
             prev_ctr == IF i > 0
                         THEN IF m = ByType THEN At(s, prev_index(i)).by_type
                                            ELSE At(s, prev_index(i)).by_group
                         ELSE None
         IN  [view_idx |-> i,
              out |-> fmt_with_delta(title, counter, curr.matched, curr.total,
                                     prev_ctr, curr.ts, i, Len(s), curr.system)]

\* a baseline that starts from empty Counters
base_of_zeroed(snap) == [snap EXCEPT !.by_group = EmptyCounter, !.by_type = EmptyCounter]

\* the copy reset_baseline makes: Counters copied, every other field shared;
\* no field of a stored snapshot is written afterwards, so the copy is the value
base_of(snap) == snap

\* the insert dropping what was stored after the viewed snapshot
insert_at_truncating(s, i, base) == SubSeq(s, 1, i) \o <<base, s[i + 1]>>

\* self.snaps.insert(i, base)
insert_at(s, i, base) == SubSeq(s, 1, i) \o <<base>> \o SubSeq(s, i + 1, Len(s))

\* the guard of reset_baseline
can_reset(s, v) == v >= 0 /\ v < Len(s)

\* reset_baseline without the advance of the view index
reset_view_stays(v) == v

\* the view index reset_baseline sets before it renders
reset_view(v) == v + 1

\* go_next wrapping around at the last snapshot
next_view_wraps(s, v) == IF s = <<>> THEN v ELSE (v + 1) % Len(s)

\* the view index go_prev / go_next set before they render
prev_view(s, v) == IF v > 0 THEN v - 1 ELSE v
next_view(s, v) == IF v < Len(s) - 1 THEN v + 1 ELSE v

-----------------------------------------------------------------------------
(* Inputs and bounds *)

\* the store is capped: no handler grows it beyond MaxSnaps
MaxSnaps == 3

Rifter  == <<"R","i","f","t","e","r">>
Caracal == <<"C","a","r","a","c","a","l">>
Drake   == <<"D","r","a","k","e">>
Frigate == <<"F","r","i","g","a","t","e">>
Cruiser == <<"C","r","u","i","s","e","r">>

\* ship_index.json: {"Rifter": "Frigate", "Caracal": "Cruiser"}
ExampleIndex == << <<Rifter, Frigate>>, <<Caracal, Cruiser>> >>

\* an index with a key that holds another key
NavyIssue     == <<"N","a","v","y",SP,"I","s","s","u","e">>
FactionCruiser == <<"F","a","c","t","i","o","n",SP,"C","r","u","i","s","e","r">>
NavyIndex == ExampleIndex \o << <<Caracal \o <<SP>> \o NavyIssue, FactionCruiser>> >>

\* the index files the substring variant is run with
FnIndexFiles == {[found |-> TRUE, valid |-> TRUE, raw |-> ExampleIndex],
                 [found |-> TRUE, valid |-> TRUE, raw |-> NavyIndex]}

\* no index file, a file that is not a JSON object, and the index above
IndexFiles == {[found |-> FALSE, valid |-> FALSE, raw |-> <<>>],
               [found |-> TRUE,  valid |-> FALSE, raw |-> <<>>],
               [found |-> TRUE,  valid |-> TRUE,  raw |-> ExampleIndex]}

\* eve_now_str() at the time of a trigger; a stored ts is only ever printed,
\* so one reading of the clock stands for all
Stamps == {"11/02/2026 22:50"}

Line1 == <<"1", TAB, "a", TAB>> \o Rifter
Line2 == <<"2", TAB, "b", TAB>> \o Caracal
Line3 == <<"3", TAB, "c", TAB>> \o Rifter
Line4 == <<"4", TAB, "d", TAB>>
Line5 == <<"5", TAB, "e", TAB>> \o Drake

TextA      == Join(<<Line1, Line2, Line3>>, <<NL>>)
TextB      == Join(<<Line1, Line2, Line5, Line4>>, <<NL>>)
TextPadded == <<NL, SP>> \o TextA \o <<SP, NL>>
TextBlank  == <<SP, NL, TAB>>
TextChat   == <<"h","e","l","l","o",SP,"w","o","r","l","d">>

\* the clipboard texts the store is driven with
Pastes == {TextA, TextB, TextPadded, TextBlank, TextChat}

\* a text has at most MaxLines lines of the LineVocabulary
MaxLines == 3

LineTyped   == <<"1",SP,SP,"a",SP,SP,"R","i","f","t","e","r">>
LineTabbed  == <<SP,"7",TAB,"q",TAB,"C","a","r","a","c","a","l">>
LineUntyped == <<"2",TAB,"b">>
LineNoId    == <<"x",SP,SP,"y",SP,SP,"D","r","a","k","e">>
LineAlnum   == <<"3","a",SP,SP,"c",SP,SP,"R","i","f","t","e","r">>
LineBlank   == <<SP>>

LineVocabulary == {LineTyped, LineTabbed, LineUntyped, LineNoId, LineAlnum, LineBlank}

\* the texts of up to MaxLines lines
VocabularyTexts ==
    {Join(ls, <<NL>>) : ls \in UNION {[1..n -> LineVocabulary] : n \in 0..MaxLines}}

\* the example report of the specification, as it is spaced there, and with
\* its third line spaced like the other two
ExampleLine1 == <<"1","0","0","1",SP,SP,SP,"P","i","l","o","t",SP,"O","n","e",
                  SP,SP,SP,"R","i","f","t","e","r",SP,SP,SP,SP,"1","2",SP,"k","m">>
ExampleLine2 == <<"1","0","0","2",SP,SP,SP,"P","i","l","o","t",SP,"T","w","o",
                  SP,SP,SP,"C","a","r","a","c","a","l",SP,SP,SP,"3","0",SP,"k","m">>
ExampleLine3 == <<"1","0","0","3",SP,SP,SP,"P","i","l","o","t",SP,"T","h","r","e","e",
                  SP,"R","i","f","t","e","r",SP,SP,SP,SP,"4","5",SP,"k","m">>
ExampleLine3Wide ==
                <<"1","0","0","3",SP,SP,SP,"P","i","l","o","t",SP,"T","h","r","e","e",
                  SP,SP,SP,"R","i","f","t","e","r",SP,SP,SP,SP,"4","5",SP,"k","m">>

ExampleText     == Join(<<ExampleLine1, ExampleLine2, ExampleLine3>>, <<NL>>)
ExampleTextWide == Join(<<ExampleLine1, ExampleLine2, ExampleLine3Wide>>, <<NL>>)

\* a report whose types are spelled in another case than the keys of the index
LineUpper == <<"1",TAB,"a",TAB,"R","I","F","T","E","R">>
LineLower == <<"2",TAB,"b",TAB,"c","a","r","a","c","a","l">>
TextCase  == Join(<<LineUpper, LineLower, Line3, Line4, Line5>>, <<NL>>)

\* lines without columns: the longest key of two, two keys, and no key
LineNavy  == <<"P","i","l","o","t",SP,"i","n",SP,"a",SP,"C","a","r","a","c","a","l",SP,"N","a","v","y",SP,"I","s","s","u","e">>
LineTwo   == <<"r","i","f","t","e","r",SP,"a","n","d",SP,"C","A","R","A","C","A","L">>
LineNoKey == <<"n","o","t","h","i","n","g",SP,"h","e","r","e">>
TextLines == Join(<<LineNavy, LineNoKey, LineTwo, Line1>>, <<NL>>)

\* a text for the thresholds has at most MaxCounted lines
MaxCounted == 10

Repeat(line, n) == [i \in 1..n |-> line]

\* short lines with id and type, with id only, and without id
ShortTyped   == <<"1",TAB,"a",TAB,"R">>
ShortUntyped == <<"2">>
ShortNoId    == <<"x">>

\* the texts of a lines with id and type, b lines with id and without type and
\* c lines without id, for every a + b + c up to MaxCounted
ThresholdTexts ==
    {Join(Repeat(ShortTyped, t[1]) \o Repeat(ShortUntyped, t[2]) \o Repeat(ShortNoId, t[3]),
          <<NL>>) :
        t \in {u \in (0..MaxCounted) \X (0..MaxCounted) \X (0..MaxCounted) :
                  u[1] + u[2] + u[3] <= MaxCounted}}

\* lines for the column mapping: five columns, a first column followed by
\* empty ones, a first column and a tab, one column, columns after leading
\* spaces, and two columns
RowFive    == <<"1",TAB,"a",TAB,"b",TAB,"c",TAB,"e">>
RowFirst   == <<"a",TAB,TAB,TAB,"d">>
RowTab     == <<"x",TAB>>
RowOne     == <<"x">>
RowLeading == <<SP,SP,"7",SP,SP,"q",SP,SP,"C","a","r","a","c","a","l",SP,SP,"3",SP,"k","m">>
RowTwo     == <<"1",TAB,"a">>

RowLines == {RowFive, RowFirst, RowTab, RowOne, RowLeading, RowTwo}

\* the texts of one and of two of these lines
RowTexts == {Join(ls, <<NL>>) : ls \in [1..1 -> RowLines] \cup [1..2 -> RowLines]}

\* lines for the location: structures named with a token, with a word in
\* lower case and with a token followed by two spaces, a structure without
\* " - " in its name, and a ship named like a structure
LocToken   == <<"1",TAB,"J","-","X","1",SP,"-",SP,"H","o","m","e",TAB,"A","s","t","r","a","h","u","s">>
LocWord    == <<"2",TAB,"h","o","m","e",SP,"-",SP,"b","a","s","e",TAB,"F","o","r","t","i","z","a","r">>
LocSpaced  == <<"3",TAB,"Q","9",SP,SP,"-",SP,"P","a","d",TAB,"A","t","h","a","n","o","r",SP,"R","e","f","i","n","e","r","y">>
LocNoDash  == <<"4",TAB,"N","o","D","a","s","h",TAB,"K","e","e","p","s","t","a","r">>
LocShip    == <<"5",TAB,"X","Y","-","1",SP,"-",SP,"S","h","i","p",TAB,"R","i","f","t","e","r">>

LocationLines == {LocToken, LocWord, LocSpaced, LocNoDash, LocShip}

\* the texts of one and of two of these lines
LocationTexts ==
    {Join(ls, <<NL>>) : ls \in [1..1 -> LocationLines] \cup [1..2 -> LocationLines]}

\* the clipboard texts the pipeline is run on once
FnClips == VocabularyTexts \cup ThresholdTexts \cup RowTexts \cup LocationTexts
               \cup {ExampleText, ExampleTextWide, TextCase, TextLines}

\* every clipboard text of the model
Clips == Pastes \cup FnClips

-----------------------------------------------------------------------------------------------------------------------------------------------------
(* The pure functions, tabulated once over the inputs of the model: a handler *)
(* reads the result of strip, looks_like_dscan, parse_dscan, analyze_rows and *)
(* extract_system_from_rows for its text from these tables                    *)

Indexes == {load_ship_index(file) : file \in IndexFiles \cup FnIndexFiles}

stripped == [clip \in Clips |-> Strip(clip)]

Texts == {stripped[clip] : clip \in Clips}

\* looks_like_dscan never reads its type_to_group
looks_like == [text \in Texts |-> looks_like_dscan(text, <<>>)]

looks_like_call == [text \in Texts |-> looks_like_dscan_call(text, <<>>)]

parsed == [text \in Texts |-> parse_dscan(text)]

analyzed ==
    [idx \in Indexes \ {None} |-> [text \in Texts |-> analyze_rows(parsed[text], idx[1])]]

system_of == [text \in Texts |-> extract_system_from_rows(parsed[text])]

\* the duplicate test against the viewed snapshot instead of the last one
is_duplicate_of_viewed(s, text) == s # <<>> /\ At(s, view_idx).raw = text

\* the duplicate test against every stored snapshot
is_duplicate_of_any(s, text) == \E k \in DOMAIN s : s[k].raw = text

\* "ignore exact duplicate raw"
is_duplicate(s, text) == s # <<>> /\ s[Len(s)].raw = text

\* the early returns without the format gate
rejects_without_gate(idx, gate, s, text) ==
    \/ idx = None
    \/ text = <<>>
    \/ parsed[text] = <<>>
    \/ is_duplicate(s, text)

\* the call of looks_like_dscan in on_clipboard_changed raises: the handler
\* ends there, and whether the program goes on after an exception in a slot
\* is up to PyQt; the model lets it go on
raises(idx, gate, text) ==
    idx # None /\ gate /\ looks_like_call[text] = ZeroDivisionError

\* the early returns of on_clipboard_changed for the stripped text
rejects(idx, gate, s, text) ==
    \/ idx = None
    \/ gate /\ ~looks_like[text]
    \/ text = <<>>
    \/ parsed[text] = <<>>
    \/ is_duplicate(s, text)

\* the snapshot on_clipboard_changed builds
make_snap(text, idx, stamp) ==
    LET a == analyzed[idx][text]
    IN  [ts |-> stamp, by_group |-> a.by_group, by_type |-> a.by_type,
         matched |-> a.matched, total |-> a.total, raw |-> text,
         rows |-> parsed[text], system |-> system_of[text]]

\* the append without the move of the view index
appended_view_stays(s) == view_idx

\* the view index on_clipboard_changed sets after the append
appended_view(s) == Len(s) - 1

-----
(* The state machine *)

Did(op) == [op |-> op, snaps |-> snaps, view_idx |-> view_idx]

\* Main.__init__ ran to its end: main() has a window whose handlers can run
constructed == load_err # Raised

Init ==
    /\ line_counts = None
    /\ index_file \in IndexFiles
    /\ load_err = load_ship_index_err(index_file)
    /\ index = load_ship_index(index_file)
    /\ mode = ByGroup
    /\ ignore_non_dscan = TRUE
    /\ snaps = <<>>
    /\ view_idx = -1
    /\ out = EmptyOut
    /\ cb = <<>>
    /\ last = [op |-> "init", snaps |-> <<>>, view_idx |-> -1]
    /\ adds = 0

\* on_clipboard_changed with `clip` on the clipboard
on_clipboard_changed(clip) ==
    LET text == stripped[clip]
    IN  /\ cb' = clip
        /\ constructed
        /\ last' = Did(IF raises(index, ignore_non_dscan, text)
                       THEN ZeroDivisionError ELSE "paste")
        /\ UNCHANGED <<line_counts, index_file, load_err, index, mode, ignore_non_dscan>>
        /\ IF raises(index, ignore_non_dscan, text)
              \/ rejects(index, ignore_non_dscan, snaps, text)
           THEN /\ UNCHANGED <<snaps, view_idx, out>>
                /\ adds' = IF clip = cb THEN adds ELSE 0
           ELSE /\ Len(snaps) < MaxSnaps
                /\ \E stamp \in Stamps :
                       snaps' = Append(snaps, make_snap(text, index, stamp))
                /\ LET r == render_current(snaps', appended_view(snaps'), mode)
                   IN  view_idx' = r.view_idx /\ out' = r.out
                /\ adds' = (IF clip = cb THEN adds ELSE 0) + 1

reset_baseline ==
    /\ constructed
    /\ last' = Did("reset")
    /\ UNCHANGED <<line_counts, index_file, load_err, index, mode, ignore_non_dscan, cb, adds>>
    /\ IF can_reset(snaps, view_idx)
       THEN /\ Len(snaps) < MaxSnaps
            /\ snaps' = insert_at(snaps, view_idx, base_of(At(snaps, view_idx)))
            /\ LET r == render_current(snaps', reset_view(view_idx), mode)
               IN  view_idx' = r.view_idx /\ out' = r.out
       ELSE UNCHANGED <<snaps, view_idx, out>>

\* go_prev with the decrement moved out of its guard
go_prev_unguarded ==
    /\ constructed
    /\ last' = Did("prev")
    /\ UNCHANGED <<line_counts, index_file, load_err, index, mode, ignore_non_dscan, snaps, cb, adds>>
    /\ view_idx' = view_idx - 1
    /\ IF view_idx - 1 > 0
       THEN out' = render_current(snaps, view_idx - 1, mode).out
       ELSE UNCHANGED out

\* go_prev and go_next render only when they move
go_prev ==
    /\ constructed
    /\ last' = Did("prev")
    /\ UNCHANGED <<line_counts, index_file, load_err, index, mode, ignore_non_dscan, snaps, cb, adds>>
    /\ IF prev_view(snaps, view_idx) # view_idx
       THEN LET r == render_current(snaps, prev_view(snaps, view_idx), mode)
            IN  view_idx' = r.view_idx /\ out' = r.out
       ELSE UNCHANGED <<view_idx, out>>

go_next ==
    /\ constructed
    /\ last' = Did("next")
    /\ UNCHANGED <<line_counts, index_file, load_err, index, mode, ignore_non_dscan, snaps, cb, adds>>
    /\ IF next_view(snaps, view_idx) # view_idx
       THEN LET r == render_current(snaps, next_view(snaps, view_idx), mode)
            IN  view_idx' = r.view_idx /\ out' = r.out
       ELSE UNCHANGED <<view_idx, out>>

\* cmbMode.currentTextChanged: the combo box reports a text only when it changes
on_mode_change(txt) ==
    /\ txt # mode
    /\ mode' = txt
    /\ constructed
    /\ last' = Did("mode")
    /\ UNCHANGED <<line_counts, index_file, load_err, index, ignore_non_dscan, snaps, cb, adds>>
    /\ LET r == render_current(snaps, view_idx, txt)
       IN  view_idx' = r.view_idx /\ out' = r.out

\* the checkable menu action "Ignore non D-Scan format"
toggle_ignore_non_dscan ==
    /\ ignore_non_dscan' = ~ignore_non_dscan
    /\ constructed
    /\ last' = Did("gate")
    /\ UNCHANGED <<line_counts, index_file, load_err, index, mode, snaps, view_idx, out, cb, adds>>

Next ==
    \/ \E clip \in Pastes : on_clipboard_changed(clip)
    \/ reset_baseline
    \/ go_prev
    \/ go_next
    \/ \E txt \in Modes : on_mode_change(txt)
    \/ toggle_ignore_non_dscan

Spec == Init /\ [][Next]_vars

\* The pipeline run on one clipboard text: the program starts with the index
\* file in place and `cb` on the clipboard, and every trigger hands in that text.
InitFn ==
    /\ line_counts = None
    /\ index_file = [found |-> TRUE, valid |-> TRUE, raw |-> ExampleIndex]
    /\ load_err = load_ship_index_err(index_file)
    /\ index = load_ship_index(index_file)
    /\ mode = ByGroup
    /\ ignore_non_dscan = TRUE
    /\ snaps = <<>>
    /\ view_idx = -1
    /\ out = EmptyOut
    /\ cb \in FnClips
    /\ last = [op |-> "init", snaps |-> <<>>, view_idx |-> -1]
    /\ adds = 0

NextFn ==
    \/ on_clipboard_changed(cb)
    \/ \E txt \in Modes : on_mode_change(txt)
    \/ toggle_ignore_non_dscan

SpecFn == InitFn /\ [][NextFn]_vars

\* a trigger of the substring variant: every non-blank line of the text is
\* looked up as a whole
on_clipboard_changed_substring(clip) ==
    /\ constructed
    /\ index # None
    /\ cb' = clip
    /\ line_counts' = analyze_lines([by_group |-> EmptyCounter, matched |-> 0],
                                    SelectSeq(SplitLines(stripped[clip]), NonBlank),
                                    index[1])
    /\ UNCHANGED <<index_file, load_err, index, mode, ignore_non_dscan,
                   snaps, view_idx, out, last, adds>>

InitSubstring ==
    /\ line_counts = None
    /\ index_file \in FnIndexFiles
    /\ load_err = load_ship_index_err(index_file)
    /\ index = load_ship_index(index_file)
    /\ mode = ByGroup
    /\ ignore_non_dscan = TRUE
    /\ snaps = <<>>
    /\ view_idx = -1
    /\ out = EmptyOut
    /\ cb \in FnClips
    /\ last = [op |-> "init", snaps |-> <<>>, view_idx |-> -1]
    /\ adds = 0

NextSubstring == on_clipboard_changed_substring(cb)

SpecSubstring == InitSubstring /\ [][NextSubstring]_vars

-----------------------------------------------------------------------------
(* Properties *)

\* the stripped text of the latest trigger, and how the store stood before it
PastedText  == stripped[cb]
StoreBefore == last.snaps
ViewBefore  == last.view_idx
LastBefore  == StoreBefore[Len(StoreBefore)]

\* the reasons for which a trigger is refused
NoIndex     == index = None
GateFails   == ignore_non_dscan /\ ~looks_like[PastedText]
BlankText   == PastedText = <<>>
Duplicate   == StoreBefore # <<>> /\ LastBefore.raw = PastedText
Rejected    == NoIndex \/ GateFails \/ BlankText \/ Duplicate

ViewedOlderBefore == StoreBefore # <<>> /\ ViewBefore < Len(StoreBefore) - 1

\* C1: whenever the store is not empty, 0 <= view_idx < len(snaps), after any
\* sequence of triggers, go_prev, go_next and reset_baseline.
C1_ViewIndexInRange ==
    snaps # <<>> => (0 <= view_idx /\ view_idx < Len(snaps))

C1_Witness ==
    /\ last.op = "prev"
    /\ Len(snaps) >= 2
    /\ ViewBefore = 0
    /\ view_idx = 0

\* C2: a run of triggers that all carry the same text appends at most one
\* snapshot; a trigger whose stripped text equals the raw text of the last
\* stored snapshot leaves the store as it was.
C2_PasteIdempotent ==
    /\ adds <= 1
    /\ (last.op = "paste" /\ Duplicate) => snaps = StoreBefore

C2_Witness ==
    /\ last.op = "paste"
    /\ adds = 1
    /\ Duplicate
    /\ snaps = StoreBefore

\* C3: reset_baseline at the viewed index i makes the store one longer, moves
\* the element that was at i to i+1, puts at i a clone with the same by_group
\* and by_type, and advances view_idx to i+1, so the viewed snapshot is the
\* one viewed before.
C3_ResetBaseline ==
    (last.op = "reset" /\ StoreBefore # <<>>) =>
        LET i == ViewBefore
        IN  /\ Len(snaps) = Len(StoreBefore) + 1
            /\ At(snaps, i + 1) = At(StoreBefore, i)
            /\ At(snaps, i).by_group = At(StoreBefore, i).by_group
            /\ At(snaps, i).by_type = At(StoreBefore, i).by_type
            /\ view_idx = i + 1
            /\ At(snaps, view_idx) = At(StoreBefore, i)

C3_Witness ==
    /\ last.op = "reset"
    /\ ViewBefore >= 1
    /\ At(StoreBefore, ViewBefore) # At(StoreBefore, ViewBefore - 1)
    /\ Len(snaps) = Len(StoreBefore) + 1

\* C4: go_prev at view_idx = 0 and go_next at view_idx = len-1 leave view_idx
\* where it is, elsewhere they move it by exactly one step, and neither
\* changes the stored snapshots (on the empty store neither does anything).
C4_NavigationClamped ==
    /\ last.op \in {"prev", "next"} => snaps = StoreBefore
    /\ (last.op \in {"prev", "next"} /\ StoreBefore = <<>>) => view_idx = ViewBefore
    /\ (last.op = "prev" /\ StoreBefore # <<>>) =>
           IF ViewBefore = 0 THEN view_idx = 0 ELSE view_idx = ViewBefore - 1
    /\ (last.op = "next" /\ StoreBefore # <<>>) =>
           IF ViewBefore = Len(StoreBefore) - 1 THEN view_idx = ViewBefore
           ELSE view_idx = ViewBefore + 1

C4_Witness ==
    /\ last.op = "next"
    /\ Len(snaps) >= 2
    /\ ViewBefore = Len(snaps) - 1
    /\ view_idx = ViewBefore

\* C5: every trigger that is not refused appends its snapshot as the last
\* element and sets view_idx to the new last index, whichever snapshot was
\* viewed before.
C5_AppendMovesViewToLast ==
    (last.op = "paste" /\ ~Rejected) =>
        /\ Len(snaps) = Len(StoreBefore) + 1
        /\ SubSeq(snaps, 1, Len(StoreBefore)) = StoreBefore
        /\ snaps[Len(snaps)].raw = PastedText
        /\ view_idx = Len(snaps) - 1

C5_Witness ==
    /\ last.op = "paste"
    /\ ~Rejected
    /\ ViewedOlderBefore
    /\ view_idx = Len(snaps) - 1

\* the counters the report of the viewed snapshot is made of
ViewedCounts == IF mode = ByType THEN At(snaps, view_idx).by_type
                ELSE At(snaps, view_idx).by_group
PreviousCounts == IF mode = ByType THEN At(snaps, view_idx - 1).by_type
                  ELSE At(snaps, view_idx - 1).by_group

\* the row the delta law asks for: '(+d)' for d > 0, '(-d)' for d < 0, no
\* suffix for d = 0
LawfulRow(name, c, d) ==
    IF d > 0 THEN <<name, ": ", c, " (+", d, ")">>
    ELSE IF d < 0 THEN <<name, ": ", c, " (", d, ")">>
    ELSE <<name, ": ", c>>

RowsOf(name) == {i \in DOMAIN out.rows : out.rows[i][1] = name}

\* C6: when the viewed snapshot has a previous one, every category X of its
\* counts has exactly one row, which prints curr[X] and the delta
\* curr[X] - prev.get(X, 0) with the sign of that delta.
C6_DeltaLaw ==
    (snaps # <<>> /\ view_idx > 0) =>
        \A X \in DOMAIN ViewedCounts :
            /\ Cardinality(RowsOf(X)) = 1
            /\ \A i \in RowsOf(X) :
                   out.rows[i] = LawfulRow(X, ViewedCounts[X],
                                           ViewedCounts[X] - Get(PreviousCounts, X))

C6_Witness ==
    /\ snaps # <<>>
    /\ view_idx > 0
    /\ \E X, Y, Z \in DOMAIN ViewedCounts :
           /\ ViewedCounts[X] > Get(PreviousCounts, X)
           /\ ViewedCounts[Y] < Get(PreviousCounts, Y)
           /\ ViewedCounts[Z] = Get(PreviousCounts, Z)

\* C7: in the report, a row with a greater current count stands before every
\* row with a smaller one, and rows with equal counts stand in ascending
\* order of their names.
C7_SortingLaw ==
    snaps # <<>> =>
        \A i, j \in DOMAIN out.rows :
            i < j =>
                \/ out.rows[i][3] > out.rows[j][3]
                \/ /\ out.rows[i][3] = out.rows[j][3]
                   /\ StrLess(out.rows[i][1], out.rows[j][1])

C7_Witness ==
    /\ snaps # <<>>
    /\ \E i, j \in DOMAIN out.rows : i < j /\ out.rows[i][3] = out.rows[j][3]
    /\ \E i, j \in DOMAIN out.rows : i < j /\ out.rows[i][3] > out.rows[j][3]

Km45 == <<"4","5",SP,"k","m">>

RowIndex(name, c) == {i \in DOMAIN out.rows : out.rows[i] = <<name, ": ", c>>}

\* C8 as claimed: the example text, spaced as in the specification, yields
\* by_type {Rifter: 2, Caracal: 1}, by_group {Frigate: 2, Cruiser: 1},
\* matched 3, total 3, and the by-group report has "Frigate: 2" above
\* "Cruiser: 1".
C8_ExampleAsClaimed ==
    (cb = ExampleText /\ snaps # <<>>) =>
        /\ snaps[1].by_type = (Rifter :> 2) @@ (Caracal :> 1)
        /\ snaps[1].by_group = (Frigate :> 2) @@ (Cruiser :> 1)
        /\ snaps[1].matched = 3
        /\ snaps[1].total = 3
        /\ mode = ByGroup =>
               \E i \in RowIndex(Frigate, 2) : \E j \in RowIndex(Cruiser, 1) : i < j

\* C8 amended: the third line of the example has one space between
\* "Pilot Three" and "Rifter", so its type column is "45 km": the text yields
\* by_type {Rifter: 1, Caracal: 1, "45 km": 1}, by_group {Frigate: 1,
\* Cruiser: 1, Unknown: 1}, matched 3, total 3 and the by-group rows
\* Cruiser: 1, Frigate: 1, Unknown: 1; with the third line spaced like the
\* other two, the text yields what the example expects.
C8_ExampleAsSpaced ==
    /\ (cb = ExampleText /\ snaps # <<>>) =>
           /\ snaps[1].by_type = (Rifter :> 1) @@ (Caracal :> 1) @@ (Km45 :> 1)
           /\ snaps[1].by_group = (Frigate :> 1) @@ (Cruiser :> 1) @@ (Unknown :> 1)
           /\ snaps[1].matched = 3
           /\ snaps[1].total = 3
           /\ mode = ByGroup =>
                  out.rows = << <<Cruiser, ": ", 1>>, <<Frigate, ": ", 1>>,
                                <<Unknown, ": ", 1>> >>
    /\ (cb = ExampleTextWide /\ snaps # <<>>) =>
           /\ snaps[1].by_type = (Rifter :> 2) @@ (Caracal :> 1)
           /\ snaps[1].by_group = (Frigate :> 2) @@ (Cruiser :> 1)
           /\ snaps[1].matched = 3
           /\ snaps[1].total = 3
           /\ mode = ByGroup =>
                  out.rows = << <<Frigate, ": ", 2>>, <<Cruiser, ": ", 1>> >>

C8_Witness ==
    /\ cb = ExampleText
    /\ last.op = "paste"
    /\ Len(snaps) = 1
    /\ mode = ByGroup
    /\ ignore_non_dscan

NonBlankLines(text) == SelectSeq(SplitLines(text), NonBlank)

ThreeTypedIdLines(text) ==
    LET ls == NonBlankLines(text)
    IN  Len(ls) = 3 /\ \A i \in DOMAIN ls : ID_LINE_RE(ls[i]) /\ HasType(ls[i])

\* C9: looks_like_dscan accepts every text of exactly 3 non-blank lines that
\* all start with a numeric id and all have a non-empty 3rd column, and
\* rejects every text of only 2 non-blank lines; with the gate on, the
\* pipeline stores the former and refuses the latter.
C9_ValidatorBoundary ==
    /\ ThreeTypedIdLines(cb) => looks_like_dscan(cb, index[1])
    /\ Len(NonBlankLines(cb)) = 2 => ~looks_like_dscan(cb, index[1])
    /\ (last.op = "paste" /\ ignore_non_dscan /\ StoreBefore = <<>>) =>
           /\ ThreeTypedIdLines(PastedText) => Len(snaps) = 1
           /\ Len(NonBlankLines(PastedText)) = 2 => snaps = <<>>

C9_Witness ==
    /\ last.op = "paste"
    /\ ignore_non_dscan
    /\ StoreBefore = <<>>
    /\ ThreeTypedIdLines(cb)
    /\ Len(snaps) = 1

\* C10: a trigger whose text fails the gate (gate on), is empty or all white
\* space, or equals the raw text of the last snapshot changes neither the
\* store nor view_idx, also when an older snapshot is viewed; every trigger
\* leaves the store as it was or appends exactly one snapshot to it.
C10_RejectedIsNoOp ==
    /\ (last.op = "paste" /\ (GateFails \/ BlankText \/ Duplicate)) =>
           /\ snaps = StoreBefore
           /\ view_idx = ViewBefore
    /\ last.op = "paste" =>
           \/ snaps = StoreBefore /\ view_idx = ViewBefore
           \/ /\ Len(snaps) = Len(StoreBefore) + 1
              /\ SubSeq(snaps, 1, Len(StoreBefore)) = StoreBefore
              /\ snaps[Len(snaps)] = make_snap(PastedText, index, snaps[Len(snaps)].ts)

C10_Witness ==
    /\ last.op = "paste"
    /\ GateFails
    /\ ~BlankText
    /\ ViewedOlderBefore
    /\ snaps = StoreBefore
    /\ view_idx = ViewBefore

\* the names under which the analyzer rule counts a row
TypeNameOf(r) == IF r.type = <<>> THEN Unknown ELSE r.type

CatalogKeysFor(typ) == {k \in DOMAIN index[1] : Lower(k) = Lower(typ)}

GroupNameOf(r) ==
    IF r.type = <<>> \/ CatalogKeysFor(r.type) = {} THEN Unknown
    ELSE index[1][CHOOSE k \in CatalogKeysFor(r.type) : TRUE]

\* C11: every stored snapshot counts its rows by the analyzer rule: a row
\* without a type counts under "Unknown" in byType and byGroup and not in
\* matched; a row with a type counts once in matched, once under its type and
\* once under the group the index has for the type in any casing, "Unknown"
\* on a miss; so the group of a row whose type is an index key counts >= 1
C11_AnalyzerRule ==
    \A k \in DOMAIN snaps :
        LET snap == snaps[k]
            rows == snap.rows
        IN  /\ snap.matched = Cardinality({i \in DOMAIN rows : rows[i].type # <<>>})
            /\ DOMAIN snap.by_type = {TypeNameOf(rows[i]) : i \in DOMAIN rows}
            /\ \A n \in DOMAIN snap.by_type :
                   snap.by_type[n] =
                       Cardinality({i \in DOMAIN rows : TypeNameOf(rows[i]) = n})
            /\ DOMAIN snap.by_group = {GroupNameOf(rows[i]) : i \in DOMAIN rows}
            /\ \A g \in DOMAIN snap.by_group :
                   snap.by_group[g] =
                       Cardinality({i \in DOMAIN rows : GroupNameOf(rows[i]) = g})
            /\ \A i \in DOMAIN rows :
                   rows[i].type # <<>> /\ CatalogKeysFor(rows[i].type) # {}
                       => Get(snap.by_group, GroupNameOf(rows[i])) >= 1

\* a stored report with a row without a type, a row whose type is an index
\* key in upper case, and a row whose type the index does not have
C11_Witness ==
    /\ snaps # <<>>
    /\ \E i, j, m \in DOMAIN snaps[1].rows :
           LET rows == snaps[1].rows
           IN  /\ rows[i].type = <<>>
               /\ rows[j].type # <<>> /\ CatalogKeysFor(rows[j].type) # {}
               /\ rows[j].type \notin {Lower(rows[j].type), Rifter, Caracal}
               /\ rows[m].type # <<>> /\ CatalogKeysFor(rows[m].type) = {}
               /\ Get(snaps[1].by_group, Frigate) = 2

\* C12: when the index file is missing or is not a JSON object the failure
\* shows (the error dialog, or the exception that ends the program) and no
\* trigger ever stores a snapshot: the store is empty and the view unset in
\* every state, whatever was pasted
C12_LoadErrorRefusesAll ==
    ~(index_file.found /\ index_file.valid)
        => /\ load_err \in {NotFound, Raised}
           /\ snaps = <<>>
           /\ view_idx = -1
           /\ out \in {EmptyOut, NoSnapshotsOut}

\* without an index file, a well-formed report was pasted with the format
\* gate on and again with the gate off, and nothing was stored
C12_Witness ==
    /\ ~index_file.found
    /\ load_err = NotFound
    /\ last.op = "paste"
    /\ PastedText = TextA
    /\ ~ignore_non_dscan
    /\ snaps = <<>>

\* the stored snapshots of StoreBefore are the first ones of the store
KeptAsPrefix ==
    /\ Len(snaps) >= Len(StoreBefore)
    /\ SubSeq(snaps, 1, Len(StoreBefore)) = StoreBefore

\* the store is StoreBefore with one snapshot inserted at 0-based index i
KeptAround(i) ==
    /\ Len(snaps) = Len(StoreBefore) + 1
    /\ \A j \in 1..Len(StoreBefore) :
           snaps[IF j <= i THEN j ELSE j + 1] = StoreBefore[j]

\* C13: no handler removes, reorders or modifies a stored snapshot: after a
\* trigger the store is as before or as before with one snapshot at its end;
\* after resetBaseline it is as before or as before with a copy of the viewed
\* snapshot directly in front of it; after navigatePrev, navigateNext, a
\* change of the report dimension or of the gate it is as before
C13_HistoryKept ==
    /\ last.op = "init"  => snaps = <<>> /\ StoreBefore = <<>>
    /\ last.op = "paste" => KeptAsPrefix /\ Len(snaps) <= Len(StoreBefore) + 1
    /\ last.op = "reset" =>
           \/ snaps = StoreBefore
           \/ /\ KeptAround(ViewBefore)
              /\ At(snaps, ViewBefore) = At(StoreBefore, ViewBefore)
              /\ At(snaps, ViewBefore + 1) = At(StoreBefore, ViewBefore)
    /\ last.op \in {"prev", "next", "mode", "gate"} => snaps = StoreBefore
    /\ last.op \in {"init", "paste", "reset", "prev", "next", "mode", "gate"}

\* resetBaseline on an older snapshot of a store of two different reports:
\* the copy went in front of the first and both are still there, in order
C13_Witness ==
    /\ last.op = "reset"
    /\ Len(StoreBefore) = 2
    /\ StoreBefore[1] # StoreBefore[2]
    /\ ViewBefore = 0
    /\ snaps = <<StoreBefore[1], StoreBefore[1], StoreBefore[2]>>

\* the non-blank lines of the latest text, and the keys of the index found in
\* a line, all of them and the longest of them
PastedLines == SelectSeq(SplitLines(PastedText), NonBlank)

KeysIn(line) == {k \in DOMAIN index[1] : Contains(Lower(line), k)}

LongestKeysIn(line) == {k \in KeysIn(line) : \A o \in KeysIn(line) : Len(o) <= Len(k)}

GroupsOfLine(line) == {index[1][k] : k \in LongestKeysIn(line)}

\* C14: in substring mode a line is looked up as a whole: it gets the group of
\* the longest index key found in its lower-cased text, and no match, which
\* is not "Unknown", when no key is found; the analyzer counts a line with a
\* match once under its group and once as matched and skips a line without
\* one, which counts nowhere
C14_SubstringMode ==
    line_counts # None =>
        /\ \A i \in DOMAIN PastedLines :
               LET group == lookup_substring(index[1], PastedLines[i])
               IN  /\ KeysIn(PastedLines[i]) = {} <=> group = None
                   /\ KeysIn(PastedLines[i]) # {} => group \in GroupsOfLine(PastedLines[i])
                   /\ None # Unknown
        /\ line_counts.matched =
               Cardinality({i \in DOMAIN PastedLines : KeysIn(PastedLines[i]) # {}})
        /\ DOMAIN line_counts.by_group =
               UNION {GroupsOfLine(PastedLines[i]) : i \in DOMAIN PastedLines}
        /\ \A g \in DOMAIN line_counts.by_group :
               line_counts.by_group[g] =
                   Cardinality({i \in DOMAIN PastedLines : g \in GroupsOfLine(PastedLines[i])})

\* a text counted in substring mode with a line that holds a key and a longer
\* key around it, a line with two keys, and a line with none
C14_Witness ==
    /\ line_counts # None
    /\ PastedText = TextLines
    /\ Cardinality(KeysIn(LineNavy)) = 2
    /\ line_counts.by_group = (FactionCruiser :> 1) @@ (Cruiser :> 1) @@ (Frigate :> 1)
    /\ line_counts.matched = 3

\* the view index after n presses of navigatePrev
RECURSIVE PrevTimes(_, _)
PrevTimes(v, n) == IF n = 0 THEN v ELSE PrevTimes(prev_view(snaps, v), n - 1)

CountsBefore(i) == IF mode = ByType THEN At(StoreBefore, i).by_type
                   ELSE At(StoreBefore, i).by_group

\* C15: right after resetBaseline on a non-empty store the report, in the
\* by-group as in the by-type dimension, has one row "name: count" without a
\* delta for every category of the snapshot that was viewed, and every
\* snapshot that stood before the reset position is still at its index, where
\* navigatePrev pressed often enough arrives
C15_ResetShowsNoDelta ==
    (last.op = "reset" /\ StoreBefore # <<>>) =>
        /\ view_idx = ViewBefore + 1
        /\ ViewedCounts = CountsBefore(ViewBefore)
        /\ {out.rows[i][1] : i \in DOMAIN out.rows} = DOMAIN ViewedCounts
        /\ Len(out.rows) = Cardinality(DOMAIN ViewedCounts)
        /\ \A i \in DOMAIN out.rows :
               out.rows[i] = <<out.rows[i][1], ": ", ViewedCounts[out.rows[i][1]]>>
        /\ \A j \in 0..(ViewBefore - 1) :
               /\ PrevTimes(view_idx, view_idx - j) = j
               /\ At(snaps, j) = At(StoreBefore, j)

\* resetBaseline in the by-type dimension on the second of two snapshots
\* whose report showed a delta before
C15_Witness ==
    /\ last.op = "reset"
    /\ mode = ByType
    /\ ViewBefore = 1
    /\ CountsBefore(1) # CountsBefore(0)
    /\ view_idx = 2
    /\ \A i \in DOMAIN out.rows : Len(out.rows[i]) = 3

\* the lines the validator counts in a text: all non-blank ones, those that
\* start with an id, and those of them with a 3rd column
counted ==
    [text \in Texts |->
        LET ls == NonBlankLines(text)
        IN  [lines |-> Len(ls),
             ids   |-> Cardinality({i \in DOMAIN ls : ID_LINE_RE(ls[i])}),
             typed |-> Cardinality({i \in DOMAIN ls : ID_LINE_RE(ls[i]) /\ HasType(ls[i])})]]

CountedLines      == counted[PastedText].lines
CountedIdLines    == counted[PastedText].ids
CountedTypedLines == counted[PastedText].typed

\* at least 3 lines, ids / lines >= 7/10 and typed / ids >= 6/10
MeetsThresholds ==
    /\ CountedLines >= 3
    /\ 10 * CountedIdLines >= 7 * CountedLines
    /\ 10 * CountedTypedLines >= 6 * CountedIdLines

\* C16: looks_like_dscan accepts a text exactly when it has at least 3
\* non-blank lines, at least 0.7 of them start with a numeric id and at least
\* 0.6 of those have a non-empty 3rd column, a fraction exactly at 0.7 or at
\* 0.6 being accepted; with the gate on, the first trigger stores exactly the
\* texts that meet the thresholds
C16_Thresholds ==
    /\ looks_like[PastedText] <=> MeetsThresholds
    /\ (last.op = "paste" /\ ignore_non_dscan /\ StoreBefore = <<>>) =>
           (Len(snaps) = 1 <=> MeetsThresholds)

\* a text of 10 lines, 7 of them with an id and 5 of these with a type, was
\* stored with the gate on
C16_Witness ==
    /\ last.op = "paste"
    /\ ignore_non_dscan
    /\ StoreBefore = <<>>
    /\ CountedLines = 10
    /\ CountedIdLines = 7
    /\ CountedTypedLines = 5
    /\ Len(snaps) = 1

\* column k (from 0) of a line, empty when the line has fewer columns
Column(line, k) ==
    IF k + 1 <= Len(split_columns(line)) THEN split_columns(line)[k + 1] ELSE <<>>

\* the row the column mapping asks for
MappedRow(line) ==
    IF /\ Column(line, 1) = <<>>
       /\ Column(line, 2) = <<>>
       /\ Len(split_columns(line)) >= 2
    THEN [id |-> <<>>, name |-> Column(line, 0), type |-> Column(line, 1),
          dist |-> Column(line, 2), raw |-> line]
    ELSE [id |-> Column(line, 0), name |-> Column(line, 1), type |-> Column(line, 2),
          dist |-> Column(line, 3), raw |-> line]

\* the mapped rows of the non-blank lines of a text, in order
mapped_rows ==
    [text \in Texts |->
        [i \in DOMAIN NonBlankLines(text) |-> MappedRow(NonBlankLines(text)[i])]]

\* C17: parse_dscan makes one row of every non-blank line, in order: columns
\* 0..3 are id, name, type and distance, further columns are dropped and
\* missing ones are empty; when name and type come out empty and the line
\* has 2 or more columns the row has no id and columns 0..2 are name, type
\* and distance; every row keeps its line, and a stored snapshot holds
\* these rows
C17_ColumnMapping ==
    /\ parsed[PastedText] = mapped_rows[PastedText]
    /\ \A k \in DOMAIN snaps :
           /\ snaps[k].raw = PastedText
           /\ snaps[k].rows = mapped_rows[PastedText]
           /\ snaps[k].total = Len(mapped_rows[PastedText])

\* a stored text of a line of five columns and a line whose second and third
\* column are empty: the first row has id, name, type and distance of columns
\* 0..3, the second has no id and column 0 as its name
C17_Witness ==
    /\ Len(snaps) = 1
    /\ PastedLines = <<RowFive, RowFirst>>
    /\ snaps[1].rows[1] = [id |-> <<"1">>, name |-> <<"a">>, type |-> <<"b">>,
                           dist |-> <<"c">>, raw |-> RowFive]
    /\ snaps[1].rows[2] = [id |-> <<>>, name |-> <<"a">>, type |-> <<>>,
                           dist |-> <<>>, raw |-> RowFirst]

\* a row whose type is a structure type or holds "Complex", "Refinery" or
\* "Citadel", and whose name holds " - "
Qualifies(r) ==
    /\ \/ r.type \in STRUCTURE_TYPES
       \/ \E word \in {Complex, Refinery, Citadel} : Contains(r.type, word)
    /\ Contains(r.name, <<SP, "-", SP>>)

\* the name left of its first " - ", without white space around it
LeftPart(r) ==
    LET at == {k \in 1..(Len(r.name) - 2) : SubSeq(r.name, k, k + 2) = <<SP, "-", SP>>}
        k  == CHOOSE i \in at : \A j \in at : i <= j
    IN  Strip(SubSeq(r.name, 1, k - 1))

TokenShaped(tok) ==
    Len(tok) >= 2 /\ \A i \in DOMAIN tok : tok[i] \in Uppers \cup Digits \cup {"-"}

\* the location when the first qualifying row decides
FirstQualifyingDecides(rows) ==
    LET q == {i \in DOMAIN rows : Qualifies(rows[i])}
    IN  IF q = {} THEN None
        ELSE LET r == rows[CHOOSE i \in q : \A j \in q : i <= j]
             IN  IF TokenShaped(LeftPart(r)) THEN LeftPart(r) ELSE None

\* the location when the first qualifying row with a token-shaped left part
\* decides
FirstTokenDecides(rows) ==
    LET q == {i \in DOMAIN rows : Qualifies(rows[i]) /\ TokenShaped(LeftPart(rows[i]))}
    IN  IF q = {} THEN None
        ELSE LeftPart(rows[CHOOSE i \in q : \A j \in q : i <= j])

claimed_location == [text \in Texts |-> FirstQualifyingDecides(parsed[text])]

amended_location == [text \in Texts |-> FirstTokenDecides(parsed[text])]

\* C18 as claimed: the location of a stored snapshot is decided
\* by the first row, in order, that has a structure type and " - " in its
\* name: the left part of its name if that is a token, else none
C18_FirstQualifyingRowDecides ==
    \A k \in DOMAIN snaps : snaps[k].system = claimed_location[snaps[k].raw]

\* C18 as amended: the location of a stored snapshot is the left part of the name of the first
\* row, in order, that has a structure type, " - " in its name and a token
\* as the left part of its name; none when there is no such row
C18_FirstTokenRowDecides ==
    \A k \in DOMAIN snaps : snaps[k].system = amended_location[snaps[k].raw]

\* a stored text whose first structure row has a word in lower case left of
\* " - " and whose second has a token there: the token is the location
C18_Witness ==
    /\ Len(snaps) = 1
    /\ PastedLines = <<LocWord, LocSpaced>>
    /\ snaps[1].system = <<"Q", "9">>
    /\ out.foot[1] = <<"System: ", <<"Q", "9">> >>

\* C19: a trigger that passes the gate with a non-blank text is refused as a
\* duplicate exactly when its text is the raw text of the last stored
\* snapshot, whichever snapshot is viewed and whether or not the last one is
\* a copy made by resetBaseline; a text equal to an older snapshot only is
\* appended, so A, B, A stores three snapshots
C19_DuplicateAgainstLastOnly ==
    (last.op = "paste" /\ ~NoIndex /\ ~GateFails /\ ~BlankText) =>
        IF Duplicate
        THEN snaps = StoreBefore /\ view_idx = ViewBefore
        ELSE /\ Len(snaps) = Len(StoreBefore) + 1
             /\ SubSeq(snaps, 1, Len(StoreBefore)) = StoreBefore
             /\ snaps[Len(snaps)].raw = PastedText

\* A, B, A: the third trigger carried the text of the first snapshot, which
\* is not the last one, and was appended
C19_Witness ==
    /\ last.op = "paste"
    /\ Len(StoreBefore) = 2
    /\ StoreBefore[1].raw = PastedText
    /\ StoreBefore[2].raw # PastedText
    /\ Len(snaps) = 3
    /\ snaps[3].raw = snaps[1].raw

\* C20: when the viewed snapshot has a previous one, the report has exactly
\* one row for every category of the current or of the previous counts and
\* no other row; a category of the previous counts only is listed with
\* count 0 and the delta minus its previous count, a category of the current
\* counts only with its count as the delta
C20_RowsOfBothSnapshots ==
    (snaps # <<>> /\ view_idx > 0) =>
        /\ {out.rows[i][1] : i \in DOMAIN out.rows} =
               (DOMAIN ViewedCounts) \cup (DOMAIN PreviousCounts)
        /\ Len(out.rows) = Cardinality((DOMAIN ViewedCounts) \cup (DOMAIN PreviousCounts))
        /\ \A i \in DOMAIN out.rows :
               LET X == out.rows[i][1]
               IN  /\ (X \notin DOMAIN ViewedCounts) =>
                          out.rows[i] = <<X, ": ", 0, " (", 0 - PreviousCounts[X], ")">>
                   /\ (X \notin DOMAIN PreviousCounts) =>
                          out.rows[i] = <<X, ": ", ViewedCounts[X], " (+", ViewedCounts[X], ")">>

\* a report with a row for a category that only the previous snapshot counts
\* and a row for a category that only the viewed snapshot counts
C20_Witness ==
    /\ snaps # <<>>
    /\ view_idx > 0
    /\ \E i, j \in DOMAIN out.rows :
           /\ out.rows[i][1] \notin DOMAIN ViewedCounts
           /\ out.rows[i][3] = 0
           /\ out.rows[i][5] < 0
           /\ out.rows[j][1] \notin DOMAIN PreviousCounts
           /\ out.rows[j][5] = out.rows[j][3]

\* the sum of the counts of a Counter
RECURSIVE SumOver(_, _)
SumOver(ctr, names) ==
    IF names = {} THEN 0
    ELSE LET n == CHOOSE x \in names : TRUE
         IN  ctr[n] + SumOver(ctr, names \ {n})

SumOf(ctr) == SumOver(ctr, DOMAIN ctr)

\* C21: every snapshot of the store, appended by a trigger or inserted by
\* resetBaseline, has total >= 1, matched <= total, matched equal to the
\* number of its rows with a type, total equal to the number of its rows,
\* and by_group and by_type not empty, with every count >= 1 and the counts
\* of each summing to total; so the snapshot before the viewed one never has
\* an empty Counter when the report prints deltas
C21_SnapshotCounts ==
    /\ \A k \in DOMAIN snaps :
           LET snap == snaps[k]
           IN  /\ snap.total >= 1
               /\ snap.total = Len(snap.rows)
               /\ snap.matched <= snap.total
               /\ snap.matched =
                      Cardinality({i \in DOMAIN snap.rows : snap.rows[i].type # <<>>})
               /\ DOMAIN snap.by_group # {}
               /\ DOMAIN snap.by_type # {}
               /\ \A g \in DOMAIN snap.by_group : snap.by_group[g] >= 1
               /\ \A t \in DOMAIN snap.by_type : snap.by_type[t] >= 1
               /\ SumOf(snap.by_group) = snap.total
               /\ SumOf(snap.by_type) = snap.total
    /\ (snaps # <<>> /\ view_idx > 0) =>
           /\ At(snaps, view_idx - 1).by_group # EmptyCounter
           /\ At(snaps, view_idx - 1).by_type # EmptyCounter

\* after resetBaseline the store holds three snapshots, one of them with a
\* row without a type, and the report is diffed against the inserted copy
C21_Witness ==
    /\ last.op = "reset"
    /\ Len(snaps) = 3
    /\ view_idx > 0
    /\ At(snaps, view_idx - 1) = At(snaps, view_idx)
    /\ \E k \in DOMAIN snaps : snaps[k].matched < snaps[k].total
    /\ \E k \in DOMAIN snaps : snaps[k].matched = snaps[k].total

\* C22: looks_like_dscan ends with True or False on every text and no
\* trigger ends with a ZeroDivisionError: a text of fewer than 3 non-blank
\* lines is refused before the division by the number of lines, and a text
\* without a line that starts with an id is refused by the test against 0.7
\* before the division by the number of such lines
C22_NoDivisionByZero ==
    /\ looks_like_call[PastedText] \in {"True", "False"}
    /\ CountedLines < 3 => looks_like_call[PastedText] = "False"
    /\ CountedIdLines = 0 => looks_like_call[PastedText] = "False"
    /\ last.op # ZeroDivisionError
    /\ (last.op = "paste" /\ ignore_non_dscan /\ CountedIdLines = 0) => snaps = StoreBefore

\* with the gate on, a trigger carried a text of 3 or more lines none of
\* which starts with an id, and returned without storing it
C22_Witness ==
    /\ last.op = "paste"
    /\ ignore_non_dscan
    /\ CountedLines >= 3
    /\ CountedIdLines = 0
    /\ snaps = <<>>

====
